---------------------------- MODULE Spec2Model ----------------------------
(***************************************************************************)
(* Model of app.py: a Flask application that runs TikTok's OAuth2           *)
(* authorization-code flow (/login, /callback, /logout) and relays an       *)
(* uploaded video through the Content Posting API (/upload: INIT, then a    *)
(* single PUT of the bytes).                                                *)
(*                                                                          *)
(* One browser holds one session cookie and issues its requests one after   *)
(* the other.  Every route handler is one action: it reads the request,     *)
(* performs its outbound HTTP calls (the remote answers are inputs of the   *)
(* action), writes the session and leaves the response in `resp` together   *)
(* with the log of the outbound calls it made.  Deliver hands the response  *)
(* to the browser, after which the next request may be issued.              *)
(***************************************************************************)
EXTENDS Integers, Sequences, FiniteSets, TLC

VARIABLES
    session,    \* the Flask session: a function from the keys that are set to their values
    resp,       \* the response of the handler that just ran (None when the browser is idle)
    prevState,  \* history: the oauth_state that the latest /login overwrote (None if none)
    consumed    \* history: the state accepted by a /callback since the latest /login (None if none)

vars == <<session, resp, prevState, consumed>>

----------------------------------------------------------------------------
(* Bounds of the model *)

NumStates == 2       \* how many distinct values secrets.token_urlsafe may return
NumTokens == 2       \* how many distinct access tokens the provider may hand out
MaxTick == 1         \* wall-clock instants at which a callback may arrive: 0..MaxTick
MaxInitCalls == 3    \* cut-off for the INIT recursion (never reached by the code)

----------------------------------------------------------------------------
(* Python values *)

None == <<>>                      \* Python's None, also "key/parameter absent"
EmptyStr == <<"">>                \* the empty string
Truthy(v) == v # None /\ v # EmptyStr

StateTokens == {<<"state", i>> : i \in 1..NumStates}
AccessTokens == {<<"act", i>> : i \in 1..NumTokens}
OpenIds == {<<"open_id", 1>>}
Codes == {<<"code", 1>>}
Times == 0..MaxTick
ExpiresIns == {120, 86400}

TOKEN_URL == "https://open.tiktokapis.com/v2/oauth/token/"
CONTENT_INIT_URL == "https://open.tiktokapis.com/v2/post/publish/video/init/"
INBOX_INIT_URL == "https://open.tiktokapis.com/v2/post/publish/inbox/video/init/"
MAX_FILE_SIZE == 287 * 1024 * 1024

----------------------------------------------------------------------------
(* The session: session.get, session[k] = v, session.clear *)

EmptySession == [k \in {} |-> None]
SessionGet(s, k) == IF k \in DOMAIN s THEN s[k] ELSE None
SessionSet(s, k, v) == [x \in (DOMAIN s) \cup {k} |-> IF x = k THEN v ELSE s[x]]

(* A response: HTTP status, which return statement produced it, the outbound
   calls the handler made (in order), what the body shows, and the request. *)
Response(route, status, tag, calls, shown, req) ==
    [route |-> route, status |-> status, tag |-> tag, calls |-> calls,
     shown |-> shown, req |-> req]


----------------------------------------------------------------------------
(* OAuth: /login, /callback, /logout *)

(* new_state(): a fresh random value is stored under "oauth_state". *)
new_state(sess, s) == SessionSet(sess, "oauth_state", s)

(* The answers the token endpoint can give.  `raised` stands for requests.post
   raising (connection error, timeout).  `json` is what r.json() yields:
   "dict" a JSON object, "list" a JSON array or string, "scalar" null, a
   number or a boolean, "invalid" a body that is not JSON.  `has_token` says
   whether "access_token" is a key of the object (or an element of the array). *)
TokenResponse(raised, status, json, has_token, at, oid, exp) ==
    [raised |-> raised, status |-> status, json |-> json, has_token |-> has_token,
     access_token |-> at, open_id |-> oid, expires_in |-> exp]

TokenStatuses == {200, 400}

TokenResponses ==
    {TokenResponse(FALSE, st, "dict", TRUE, at, oid, exp) :
        st \in TokenStatuses, at \in AccessTokens \cup {EmptyStr},
        oid \in OpenIds \cup {None}, exp \in ExpiresIns}
    \cup {TokenResponse(FALSE, st, j, FALSE, None, None, 0) :
        st \in TokenStatuses, j \in {"dict", "list", "scalar", "invalid"}}
    \cup {TokenResponse(FALSE, st, "list", TRUE, None, None, 0) : st \in TokenStatuses}
    \cup {TokenResponse(TRUE, 0, "invalid", FALSE, None, None, 0)}

(* token_json: r.json(), or {"raw": r.text} when the body is not JSON. *)
token_json(tr) ==
    IF tr.json = "invalid"
    THEN [json |-> "dict", has_token |-> FALSE, raw |-> tr]
    ELSE [json |-> tr.json, has_token |-> tr.has_token, raw |-> tr]

(* `"access_token" not in token_json` raises TypeError on null, a number or a
   boolean; it is a membership test on an object, an array or a string. *)
InRaises(tj) == tj.json = "scalar"
LacksToken(tj) == ~tj.has_token

(* token_json["access_token"] raises TypeError unless token_json is an object. *)
SubscriptRaises(tj) == tj.json # "dict"

(* Faulty variant: the check without `not saved_state`. *)
StateMismatch_NoSavedCheck(saved_state, state) == saved_state # state

(* The state check of /callback: `not saved_state or saved_state != state`. *)
StateMismatch(saved_state, state) == ~Truthy(saved_state) \/ saved_state # state

TokenCall(req, tr) ==
    [kind |-> "TOKEN", url |-> TOKEN_URL, code |-> req.code, response |-> tr]

(* /callback: the whole handler.  req = [error, code, state, now]; tr is the
   token endpoint's answer, used only if the POST is reached. *)
callback_handler(sess, req, tr) ==
    LET saved_state == SessionGet(sess, "oauth_state")
        calls == <<TokenCall(req, tr)>>
        tj == token_json(tr)
    IN  IF Truthy(req.error)
        THEN [session |-> sess,
              resp |-> Response("callback", 400, "tiktok_error", <<>>, req.error, req)]
        ELSE IF ~Truthy(req.code)
        THEN [session |-> sess,
              resp |-> Response("callback", 400, "missing_code", <<>>, None, req)]
        ELSE IF StateMismatch(saved_state, req.state)
        THEN [session |-> sess,
              resp |-> Response("callback", 400, "state_mismatch", <<>>, None, req)]
        ELSE IF tr.raised
        THEN [session |-> sess,
              resp |-> Response("callback", 500, "unhandled_exception", calls, None, req)]
        ELSE IF tr.status # 200
        THEN [session |-> sess,
              resp |-> Response("callback", 400, "token_missing", calls, tj, req)]
        ELSE IF InRaises(tj)
        THEN [session |-> sess,
              resp |-> Response("callback", 500, "unhandled_exception", calls, None, req)]
        ELSE IF LacksToken(tj)
        THEN [session |-> sess,
              resp |-> Response("callback", 400, "token_missing", calls, tj, req)]
        ELSE IF SubscriptRaises(tj)
        THEN [session |-> sess,
              resp |-> Response("callback", 500, "unhandled_exception", calls, None, req)]
        ELSE [session |-> SessionSet(SessionSet(sess, "access_token", tr.access_token),
                                     "open_id", tr.open_id),
              resp |-> Response("callback", 302, "success", calls, "/upload", req)]

CallbackRequests ==
    [error : {None, <<"access_denied">>},
     code : {None, EmptyStr} \cup Codes,
     state : {None, EmptyStr} \cup StateTokens,
     now : Times]

(* Whether the handler gets as far as the token POST for this request. *)
ReachesTokenCall(sess, req) ==
    /\ ~Truthy(req.error)
    /\ Truthy(req.code)
    /\ ~StateMismatch(SessionGet(sess, "oauth_state"), req.state)

----------------------------------------------------------------------------
(* Strings that the code formats: str(n) and the Content-Range f-string *)

DigitChar == <<"0", "1", "2", "3", "4", "5", "6", "7", "8", "9">>

RECURSIVE Digits(_)
Digits(n) ==
    IF n < 10 THEN <<DigitChar[n + 1]>>
    ELSE Digits(n \div 10) \o <<DigitChar[(n % 10) + 1]>>

(* Python's str() of an int. *)
Str(n) == IF n < 0 THEN <<"-">> \o Digits(0 - n) ELSE Digits(n)

(* Faulty variant: the last byte position written as video_size. *)
ContentRange_OffByOne(video_size) ==
    <<"b", "y", "t", "e", "s", " ", "0", "-">> \o Str(video_size)
        \o <<"/">> \o Str(video_size)

(* f"bytes 0-{video_size-1}/{video_size}" *)
ContentRange(video_size) ==
    <<"b", "y", "t", "e", "s", " ", "0", "-">> \o Str(video_size - 1)
        \o <<"/">> \o Str(video_size)

----------------------------------------------------------------------------
(* The upload: upload_video_to_tiktok and POST /upload *)

(* get_auth_headers(): None without a (truthy) access token in the session. *)
get_auth_headers(sess) ==
    IF ~Truthy(SessionGet(sess, "access_token")) THEN None
    ELSE [Authorization |-> <<"Bearer", SessionGet(sess, "access_token")>>]

(* "source_info" of the INIT payload, the same in both shapes. *)
source_info(video_size) ==
    [source |-> "FILE_UPLOAD", video_size |-> video_size,
     chunk_size |-> video_size, total_chunk_count |-> 1]

(* init_data: the direct-post shape carries post_info, the inbox shape does
   not.  (The disable_* flags are copied from the form into post_info
   unchanged and are left out here.) *)
init_data(form, video_size, direct_post) ==
    IF direct_post
    THEN [shape |-> "direct_post",
          post_info |-> [title |-> IF form.title # "" THEN form.title ELSE "Uploaded via API",
                         privacy_level |-> form.privacy_level,
                         brand_content_toggle |-> FALSE, brand_organic_toggle |-> FALSE],
          source_info |-> source_info(video_size)]
    ELSE [shape |-> "inbox",
          post_info |-> None,
          source_info |-> source_info(video_size)]

init_url(direct_post) == IF direct_post THEN CONTENT_INIT_URL ELSE INBOX_INIT_URL

(* upload_headers of the PUT. *)
upload_headers(video_size) ==
    [ContentType |-> "video/mp4",
     ContentLength |-> Str(video_size),
     ContentRange |-> ContentRange(video_size)]

(* Faulty variant: every status below 500 counts as success. *)
PutAccepted_Below500(status) == status < 500

(* The statuses of the PUT that count as success. *)
PutAccepted(status) == status \in {200, 201, 202, 204}

(* An answer of the INIT endpoint.  raised: requests.post raised.  json:
   "dict" a JSON object, "nondict" any other JSON value, "invalid" not JSON.
   error: the "error" member ("absent", "nondict" for a string or null,
   "dict").  code, message: members of error ("absent", "null", or the text,
   of which only the substrings the code looks for matter).  data: the "data"
   member ("absent", "nondict", "dict"); publish_id and upload_url are its
   members (None when absent). *)
InitResponse(raised, status, json, error, code, message, data, pid, url) ==
    [raised |-> raised, status |-> status, json |-> json, error |-> error,
     code |-> code, message |-> message, data |-> data,
     publish_id |-> pid, upload_url |-> url]

PutResponse(raised, status) == [raised |-> raised, status |-> status]

(* The answer of a call that is never made. *)
NoInit == InitResponse(TRUE, 0, "invalid", "absent", "absent", "absent", "absent", None, None)
NoPut == PutResponse(TRUE, 0)

UNAUDITED == "unaudited_client_can_only_post_to_private_accounts"
PRIVACY_MISMATCH == "privacy_level_option_mismatch"

PublishIds == {<<"v_pub_", 1>>, <<"v_inbox_", 1>>, <<"other", 1>>}
UploadUrls == {<<"upload_url", 1>>}

AcceptedBodies ==
    {<<"dict", "dict", "ok", "absent", "dict", pid, url>> :
        pid \in PublishIds, url \in UploadUrls}

IncompleteBodies ==
    {<<"dict", "dict", "ok", "absent", "absent", None, None>>,
     <<"dict", "dict", "ok", "absent", "nondict", None, None>>,
     <<"dict", "dict", "ok", "absent", "dict", None, <<"upload_url", 1>> >>,
     <<"dict", "dict", "ok", "absent", "dict", <<"v_pub_", 1>>, EmptyStr>>,
     <<"dict", "dict", "ok", "absent", "dict", <<"int", 7>>, <<"upload_url", 1>> >>}

RejectedBodies ==
    {<<"dict", "absent", "absent", "absent", "dict", <<"v_pub_", 1>>, <<"upload_url", 1>> >>,
     <<"dict", "dict", UNAUDITED, "plain", "absent", None, None>>,
     <<"dict", "dict", PRIVACY_MISMATCH, "plain", "absent", None, None>>,
     <<"dict", "dict", "invalid_params", "plain", "absent", None, None>>,
     <<"dict", "dict", "invalid_params", "private_accounts", "absent", None, None>>,
     <<"dict", "dict", "invalid_params", "absent", "absent", None, None>>,
     <<"dict", "dict", "invalid_params", "null", "absent", None, None>>,
     <<"dict", "dict", "null", "plain", "absent", None, None>>,
     <<"dict", "dict", "absent", "plain", "absent", None, None>>,
     <<"dict", "nondict", "absent", "absent", "absent", None, None>>,
     <<"nondict", "absent", "absent", "absent", "absent", None, None>>,
     <<"invalid", "absent", "absent", "absent", "absent", None, None>>}

FromBody(status, b) == InitResponse(FALSE, status, b[1], b[2], b[3], b[4], b[5], b[6], b[7])

InitResponses ==
    {FromBody(200, b) : b \in AcceptedBodies \cup IncompleteBodies \cup RejectedBodies}
    \cup {FromBody(403, b) :
            b \in RejectedBodies \cup {<<"dict", "dict", "ok", "absent", "absent", None, None>>}}
    \cup {FromBody(500, <<"invalid", "absent", "absent", "absent", "absent", None, None>>)}
    \cup {InitResponse(TRUE, 0, "invalid", "absent", "absent", "absent", "absent", None, None)}

PutResponses ==
    {PutResponse(FALSE, st) : st \in {200, 201, 204, 206, 403, 500}}
    \cup {PutResponse(TRUE, 0)}

(* The dict upload_video_to_tiktok returns.  kind: "error" or "success"; tag:
   the return statement; http: <<status>> for the HTTP status the message
   quotes (None if it quotes none); carries: which part of a response the message quotes ("text"
   the raw body, "json" the parsed body, "error_obj" its error member,
   "message" error.message, "exception" str(e), "none"); of: the position in
   the call log of the call whose response is quoted (0 if none). *)
Result(kind, tag, http, carries, of, publish_id, type) ==
    [kind |-> kind, tag |-> tag, http |-> http, carries |-> carries, of |-> of,
     publish_id |-> publish_id, type |-> type]

Error(tag, http, carries, of) == Result("error", tag, http, carries, of, None, None)

(* error.get("message", init_response.text) and error.get("code", "unknown")
   of the non-200 branch. *)
ErrorMsgCarries(r) == IF r.message = "absent" THEN "text" ELSE "message"

(* `"unaudited_client" in error_code`, `"private_accounts" in error_msg`,
   `"privacy_level_option_mismatch" in error_code`: a TypeError when the
   operand is None (a JSON null). *)
HasUnaudited(code) == code = UNAUDITED
HasPrivacyMismatch(code) == code = PRIVACY_MISMATCH
HasPrivateAccounts(message) == message = "private_accounts"

(* The log entries of the outbound calls. *)
InitCall(sess, form, video_size, direct_post, r) ==
    [kind |-> "INIT", url |-> init_url(direct_post),
     data |-> init_data(form, video_size, direct_post),
     headers |-> get_auth_headers(sess), response |-> r]

PutCall(upload_url, video_size, data_len, r) ==
    [kind |-> "PUT", url |-> upload_url, headers |-> upload_headers(video_size),
     data_len |-> data_len, response |-> r]

NumInit(calls) == Cardinality({i \in 1..Len(calls) : calls[i].kind = "INIT"})
NumPut(calls) == Cardinality({i \in 1..Len(calls) : calls[i].kind = "PUT"})

(* The remote side: env.init[k] answers the k-th INIT call, env.put the PUT. *)
InitResponseAt(env, k) == env.init[IF k <= Len(env.init) THEN k ELSE Len(env.init)]

(* publish_id.startswith(...) *)
PublishType(pid) ==
    IF pid[1] = "v_pub_" THEN "direct_post"
    ELSE IF pid[1] = "v_inbox_" THEN "inbox_flow"
    ELSE "unknown"

(* Faulty variant: the PUT's status is not looked at. *)
put_step_StatusIgnored(video_size, r, env, calls) ==
    LET p == env.put
        all == Append(calls, PutCall(r.upload_url, video_size, video_size, p))
    IN  IF p.raised
        THEN [result |-> Error("exception", None, "exception", 0), calls |-> all]
        ELSE [result |-> Result("success", "success", None, "none", 0,
                                r.publish_id, PublishType(r.publish_id)),
              calls |-> all]

(* Steps 2 and 3 of upload_video_to_tiktok: the PUT and the success dict. *)
put_step(video_size, r, env, calls) ==
    LET p == env.put
        all == Append(calls, PutCall(r.upload_url, video_size, video_size, p))
    IN  IF p.raised
        THEN [result |-> Error("exception", None, "exception", 0), calls |-> all]
        ELSE IF ~PutAccepted(p.status)
        THEN [result |-> Error("upload_failed", <<p.status>>, "text", Len(all)), calls |-> all]
        ELSE [result |-> Result("success", "success", None, "none", 0,
                                r.publish_id, PublishType(r.publish_id)),
              calls |-> all]

(* Whether the direct-post attempt falls back to the inbox shape: the two
   `if direct_post:` of the function. *)
Fallback(direct_post) == direct_post

RECURSIVE upload_video_to_tiktok(_, _, _, _, _)
upload_video_to_tiktok(sess, form, direct_post, env, calls) ==
    LET video_size == form.video_file.size
        r == InitResponseAt(env, NumInit(calls) + 1)
        all == Append(calls, InitCall(sess, form, video_size, direct_post, r))
        at == Len(all)
        done(res) == [result |-> res, calls |-> all]
        init_failed == done(Error("init_failed", <<r.status>>, "text", at))
        exception == done(Error("exception", None, "exception", 0))
    IN  IF get_auth_headers(sess) = None
        THEN [result |-> Error("not_authenticated", None, "none", 0), calls |-> calls]
        ELSE IF NumInit(calls) >= MaxInitCalls
        THEN [result |-> Error("cutoff", None, "none", 0), calls |-> calls]
        ELSE IF r.raised THEN exception
        ELSE IF r.status # 200
        THEN (* the inner try: any exception in it ends in "Init failed" *)
             IF r.json # "dict" \/ r.error = "nondict" THEN init_failed
             ELSE IF r.error = "dict" /\ r.code = "null" THEN init_failed
             ELSE IF r.error = "dict" /\ HasUnaudited(r.code)
             THEN done(Error("direct_post_error", None, ErrorMsgCarries(r), at))
             ELSE IF r.error = "dict" /\ r.message = "null" THEN init_failed
             ELSE IF r.error = "dict" /\ HasPrivateAccounts(r.message)
             THEN done(Error("direct_post_error", None, ErrorMsgCarries(r), at))
             ELSE IF r.error = "dict" /\ HasPrivacyMismatch(r.code)
             THEN done(Error("privacy_level_error", None, ErrorMsgCarries(r), at))
             ELSE IF Fallback(direct_post)
             THEN upload_video_to_tiktok(sess, form, FALSE, env, all)
             ELSE init_failed
        ELSE IF r.json = "invalid"
        THEN done(Error("init_not_json", None, "text", at))
        ELSE IF r.json # "dict" \/ r.error = "nondict" THEN exception
        ELSE IF r.error = "absent" \/ r.code # "ok"
        THEN IF r.error = "dict" /\ r.code = "null" THEN exception
             ELSE IF r.error = "dict" /\ HasUnaudited(r.code)
             THEN done(Error("requires_audit", None,
                             IF r.message = "absent" THEN "none" ELSE "message", at))
             ELSE IF r.error = "dict" /\ HasPrivacyMismatch(r.code)
             THEN done(Error("privacy_setting_error", None,
                             IF r.message = "absent" THEN "none" ELSE "message", at))
             ELSE IF Fallback(direct_post)
             THEN upload_video_to_tiktok(sess, form, FALSE, env, all)
             ELSE done(Error("init_api_error", None, "error_obj", at))
        ELSE IF r.data = "absent"
        THEN done(Error("init_missing_data", None, "json", at))
        ELSE IF r.data = "nondict" THEN exception
        ELSE IF ~Truthy(r.publish_id) \/ ~Truthy(r.upload_url)
        THEN done(Error("init_missing_ids", None, "json", at))
        ELSE IF r.publish_id[1] = "int" THEN exception
        ELSE put_step(video_size, r, env, all)

(* request.form.get("title", "").strip() and filename.lower().endswith('.mp4') *)
Strip(t) == IF t = " " THEN "" ELSE t
Lower(name) == IF name = "CLIP.MP4" THEN "clip.mp4" ELSE name
EndsWithMp4(name) == name \in {"clip.mp4"}

(* Faulty variant: `>=` in place of `>`. *)
TooLarge_Inclusive(file_size) == file_size >= MAX_FILE_SIZE

(* The size guard of POST /upload: `file_size > MAX_FILE_SIZE`. *)
TooLarge(file_size) == file_size > MAX_FILE_SIZE

FileNames == {"", "clip.mp4", "CLIP.MP4", "clip.mov"}
FileSizes == {0, 5242880, MAX_FILE_SIZE, MAX_FILE_SIZE + 1}

UploadRequests ==
    [video_file : {None} \cup [filename : FileNames, size : FileSizes],
     title : {"", " ", "hello"},
     privacy_level : {"SELF_ONLY"},
     direct_post : BOOLEAN]

(* POST /upload: the whole handler.  req is the submitted form; env holds the
   remote answers. *)
upload_handler(sess, req, env) ==
    LET title == Strip(req.title)
        form == [req EXCEPT !.title = title]
        out == upload_video_to_tiktok(sess, form, req.direct_post, env, <<>>)
    IN  IF ~Truthy(SessionGet(sess, "access_token"))
        THEN Response("upload", 401, "not_authenticated", <<>>, None, req)
        ELSE IF req.video_file = None \/ req.video_file.filename = ""
        THEN Response("upload", 400, "no_file", <<>>, None, req)
        ELSE IF req.direct_post /\ title = ""
        THEN Response("upload", 400, "title_required", <<>>, None, req)
        ELSE IF ~EndsWithMp4(Lower(req.video_file.filename))
        THEN Response("upload", 400, "not_mp4", <<>>, None, req)
        ELSE IF TooLarge(req.video_file.size)
        THEN Response("upload", 400, "too_large", <<>>, None, req)
        ELSE IF out.result.kind = "error"
        THEN Response("upload", 400, "upload_failed", out.calls, out.result, req)
        ELSE Response("upload", 200,
                      IF out.result.type = "direct_post" THEN "published" ELSE "inbox",
                      out.calls, out.result, req)

Env(r1, r2, p) == [init |-> <<r1, r2>>, put |-> p]

(* The remote side answers only the calls that are made: the k-th answer is
   chosen only if the handler, given the answers before it, makes a k-th call. *)
MakesInit(sess, req, k, env) == NumInit(upload_handler(sess, req, env).calls) >= k
MakesPut(sess, req, env) == NumPut(upload_handler(sess, req, env).calls) >= 1

----------------------------------------------------------------------------
(* Actions *)

Init ==
    /\ session = EmptySession
    /\ resp = None
    /\ prevState = None
    /\ consumed = None

(* GET /login *)
login ==
    /\ resp = None
    /\ \E s \in StateTokens :
        /\ session' = new_state(session, s)
        /\ prevState' = SessionGet(session, "oauth_state")
        /\ resp' = Response("login", 302, "redirect", <<>>, s, None)
    /\ consumed' = None

(* GET /callback *)
callback ==
    /\ resp = None
    /\ \E req \in CallbackRequests :
        \E tr \in (IF ReachesTokenCall(session, req)
                   THEN TokenResponses
                   ELSE {TokenResponse(TRUE, 0, "invalid", FALSE, None, None, 0)}) :
            LET out == callback_handler(session, req, tr)
            IN  /\ session' = out.session
                /\ resp' = out.resp
                /\ consumed' = IF out.resp.calls # <<>> THEN req.state ELSE consumed
    /\ UNCHANGED prevState

(* POST /upload *)
upload ==
    /\ resp = None
    /\ \E req \in UploadRequests :
        \E r1 \in (IF MakesInit(session, req, 1, Env(NoInit, NoInit, NoPut))
                   THEN InitResponses ELSE {NoInit}) :
        \E r2 \in (IF MakesInit(session, req, 2, Env(r1, NoInit, NoPut))
                   THEN InitResponses ELSE {NoInit}) :
        \E p \in (IF MakesPut(session, req, Env(r1, r2, NoPut))
                  THEN PutResponses ELSE {NoPut}) :
            resp' = upload_handler(session, req, Env(r1, r2, p))
    /\ UNCHANGED <<session, prevState, consumed>>

(* GET /upload: renders the form. *)
upload_form ==
    /\ resp = None
    /\ resp' = Response("upload", 200, "form", <<>>, None, None)
    /\ UNCHANGED <<session, prevState, consumed>>

(* GET /logout: session.clear() *)
logout ==
    /\ resp = None
    /\ session' = EmptySession
    /\ resp' = Response("logout", 302, "redirect", <<>>, "/", None)
    /\ UNCHANGED <<prevState, consumed>>

(* The response reaches the browser; the handler's locals are gone. *)
Deliver ==
    /\ resp # None
    /\ resp' = None
    /\ UNCHANGED <<session, prevState, consumed>>

Next == login \/ callback \/ upload \/ upload_form \/ logout \/ Deliver

Spec == Init /\ [][Next]_vars

----------------------------------------------------------------------------
(* Properties of /login, /callback, /logout *)

(* A step in which the browser's /callback request, carrying a code and no
   error parameter, is handled. *)
CallbackStep ==
    /\ resp = None
    /\ resp' # None
    /\ resp'.route = "callback"
    /\ ~Truthy(resp'.req.error)
    /\ Truthy(resp'.req.code)

(* C1: a /callback request with a code whose state parameter is absent, or
   differs from the oauth_state the session holds (the one the latest /login
   issued; none if none was issued), is answered 400 without any POST to the
   token endpoint and without any write to the session.  In particular a state
   that a later /login overwrote is rejected. *)
C1_MismatchRejected ==
    [][(/\ resp = None
        /\ resp' # None
        /\ resp'.route = "callback"
        /\ Truthy(resp'.req.code)
        /\ \/ resp'.req.state = None
           \/ resp'.req.state # SessionGet(session, "oauth_state")
           \/ /\ resp'.req.state = prevState
              /\ prevState # SessionGet(session, "oauth_state"))
       => (/\ resp'.status = 400
           /\ resp'.calls = <<>>
           /\ session' = session)]_vars

(* C1 witness: a callback presenting the state that a later /login overwrote
   was rejected as a state mismatch. *)
C1_Witness ==
    /\ resp # None
    /\ resp.route = "callback"
    /\ resp.tag = "state_mismatch"
    /\ resp.req.state \in StateTokens
    /\ resp.req.state = prevState
    /\ SessionGet(session, "oauth_state") \in StateTokens

(* C2: the state is single-use: once a /callback passed the state check with
   it (and the token exchange was attempted), a later /callback presenting the
   same state, with no /login in between, is rejected as a state mismatch and
   makes no token-endpoint call. *)
C2_StateSingleUse ==
    [][(CallbackStep /\ consumed # None /\ resp'.req.state = consumed)
       => (/\ resp'.status = 400
           /\ resp'.tag = "state_mismatch"
           /\ resp'.calls = <<>>)]_vars

(* The token endpoint's answer in a callback response that made the call. *)
TokenAnswer(rp) == rp.calls[1].response

(* The body is a JSON object with an "access_token" member. *)
ContainsToken(tr) == tr.json = "dict" /\ tr.has_token

(* C8: the exchange stores access_token and open_id if and only if the token
   endpoint answered 200 with a body containing access_token; otherwise the
   callback answers 400 showing the provider's response and leaves the
   session's access_token and open_id as they were. *)
C8_TokenStoredIffGranted ==
    [][(CallbackStep /\ resp'.calls # <<>> /\ ~TokenAnswer(resp').raised)
       => IF TokenAnswer(resp').status = 200 /\ ContainsToken(TokenAnswer(resp'))
          THEN /\ SessionGet(session', "access_token") = TokenAnswer(resp').access_token
               /\ SessionGet(session', "open_id") = TokenAnswer(resp').open_id
          ELSE /\ resp'.status = 400
               /\ resp'.shown.raw = TokenAnswer(resp')
               /\ session' = session]_vars

(* C9: after a successful exchange the session holds expires_at, equal to the
   time of the exchange plus the provider's expires_in minus 60. *)
C9_ExpiresAtRecorded ==
    (resp # None /\ resp.route = "callback" /\ resp.tag = "success")
    => /\ "expires_at" \in DOMAIN session
       /\ session["expires_at"] = resp.req.now + TokenAnswer(resp).expires_in - 60

----------------------------------------------------------------------------
(* Properties of POST /upload *)

(* The handler of a POST /upload has just run. *)
Uploaded == resp # None /\ resp.route = "upload" /\ resp.tag # "form"

(* The positions of the INIT calls and of the PUT calls in the call log. *)
InitAt(calls) == {i \in 1..Len(calls) : calls[i].kind = "INIT"}
PutAt(calls) == {i \in 1..Len(calls) : calls[i].kind = "PUT"}

(* INIT was answered and rejected: a status other than 200, or a 200 whose
   body does not say error.code = "ok". *)
InitRejected(r) ==
    /\ ~r.raised
    /\ \/ r.status # 200
       \/ ~(r.json = "dict" /\ r.error = "dict" /\ r.code = "ok")

(* INIT was answered 200, code "ok", with publish_id and upload_url. *)
InitAccepted(r) ==
    /\ ~r.raised /\ r.status = 200
    /\ r.json = "dict" /\ r.error = "dict" /\ r.code = "ok" /\ r.data = "dict"
    /\ r.publish_id \in PublishIds /\ r.upload_url \in UploadUrls

(* Reading a decimal string back. *)
DigitValue(c) == CHOOSE d \in 0..9 : DigitChar[d + 1] = c

RECURSIVE ParseNat(_)
ParseNat(str) ==
    IF Len(str) = 0 THEN 0
    ELSE 10 * ParseNat(SubSeq(str, 1, Len(str) - 1)) + DigitValue(str[Len(str)])

ParseInt(str) ==
    IF Len(str) > 0 /\ str[1] = "-" THEN 0 - ParseNat(Tail(str)) ELSE ParseNat(str)

(* Reading "bytes <first>-<last>/<total>" back. *)
ParseContentRange(str) ==
    LET slash == CHOOSE i \in 1..Len(str) : str[i] = "/"
        range == SubSeq(str, 7, slash - 1)
        dash == CHOOSE i \in 1..Len(range) :
                    range[i] = "-" /\ \A j \in 1..(i - 1) : range[j] # "-"
    IN  [unit |-> SubSeq(str, 1, 6),
         first |-> ParseInt(SubSeq(range, 1, dash - 1)),
         last |-> ParseInt(SubSeq(range, dash + 1, Len(range))),
         total |-> ParseInt(SubSeq(str, slash + 1, Len(str)))]

(* C3: with Direct Post enabled, whenever the direct-post INIT is rejected the
   client issues a second INIT against the inbox endpoint before it returns,
   whatever the cause of the rejection. *)
C3_FallbackOnEveryFailure ==
    (/\ Uploaded
     /\ resp.req.direct_post
     /\ resp.calls # <<>>
     /\ InitRejected(resp.calls[1].response))
    => /\ Len(resp.calls) >= 2
       /\ resp.calls[2].kind = "INIT"
       /\ resp.calls[2].url = INBOX_INIT_URL

(* The error result quotes the i-th call's response: its HTTP status with its
   body, or its error object. *)
Quotes(result, calls, i) ==
    /\ result.of = i
    /\ \/ result.carries = "error_obj"
       \/ /\ result.http = <<calls[i].response.status>>
          /\ result.carries \in {"text", "json"}

(* C4: one upload request issues at most two INIT calls, the direct-post shape
   first and the inbox shape second, never one shape twice and never inbox
   before direct-post; and if every INIT it attempted was rejected it ends with
   an error result that carries the HTTP status and body (or the error object)
   of the last INIT response, and sends no PUT. *)
C4_InitFallbackTerminates ==
    Uploaded =>
        /\ Cardinality(InitAt(resp.calls)) <= 2
        /\ \A i, j \in InitAt(resp.calls) :
              i < j => /\ resp.calls[i].url = CONTENT_INIT_URL
                       /\ resp.calls[j].url = INBOX_INIT_URL
        /\ (/\ InitAt(resp.calls) # {}
            /\ \A i \in InitAt(resp.calls) : InitRejected(resp.calls[i].response))
           => /\ resp.status = 400
              /\ resp.shown.kind = "error"
              /\ PutAt(resp.calls) = {}
              /\ Quotes(resp.shown, resp.calls, Len(resp.calls))

(* What C4 says of the calls alone also holds of the code: at most two INIT
   calls, direct-post before inbox, and when every attempted INIT was rejected
   an error result and no PUT. *)
InitFallbackBounded ==
    Uploaded =>
        /\ Cardinality(InitAt(resp.calls)) <= 2
        /\ \A i, j \in InitAt(resp.calls) :
              i < j => /\ resp.calls[i].url = CONTENT_INIT_URL
                       /\ resp.calls[j].url = INBOX_INIT_URL
        /\ (/\ InitAt(resp.calls) # {}
            /\ \A i \in InitAt(resp.calls) : InitRejected(resp.calls[i].response))
           => /\ resp.status = 400
              /\ resp.shown.kind = "error"
              /\ PutAt(resp.calls) = {}

(* C5: at most one PUT is issued in one upload request, and if it was answered
   with a status outside 200..299 the request ends there: the PUT is the last
   outbound call, the result is an error quoting the PUT's status and body, and
   the response is not a success. *)
C5_PutNeverRetried ==
    Uploaded =>
        /\ Cardinality(PutAt(resp.calls)) <= 1
        /\ \A i \in PutAt(resp.calls) :
              (/\ ~resp.calls[i].response.raised
               /\ resp.calls[i].response.status \notin 200..299)
              => /\ i = Len(resp.calls)
                 /\ resp.status = 400
                 /\ resp.shown.kind = "error"
                 /\ resp.shown.tag = "upload_failed"
                 /\ resp.shown.http = <<resp.calls[i].response.status>>
                 /\ resp.shown.carries = "text"
                 /\ resp.shown.of = i

(* C5 witness: a PUT was sent and answered 403. *)
C5_Witness ==
    /\ Uploaded
    /\ PutAt(resp.calls) # {}
    /\ resp.calls[Len(resp.calls)].kind = "PUT"
    /\ resp.calls[Len(resp.calls)].response.status = 403

(* C6: for a file of N bytes every INIT request declares video_size = N,
   chunk_size = N and total_chunk_count = 1, in the direct-post attempt and in
   the inbox attempt alike, and the PUT declares Content-Length: N and
   Content-Range: bytes 0-(N-1)/N. *)
C6_DeclaredSizeExact ==
    Uploaded =>
        LET N == resp.req.video_file.size
        IN  /\ \A i \in InitAt(resp.calls) :
                  /\ resp.calls[i].data.source_info.video_size = N
                  /\ resp.calls[i].data.source_info.chunk_size = N
                  /\ resp.calls[i].data.source_info.total_chunk_count = 1
            /\ \A i \in PutAt(resp.calls) :
                  /\ ParseInt(resp.calls[i].headers.ContentLength) = N
                  /\ ParseContentRange(resp.calls[i].headers.ContentRange)
                       = [unit |-> <<"b", "y", "t", "e", "s", " ">>,
                          first |-> 0, last |-> N - 1, total |-> N]
                  /\ resp.calls[i].data_len = N

(* C6 witness: a 5 MB file went through a rejected direct-post INIT, the inbox
   INIT and the PUT. *)
C6_Witness ==
    /\ Uploaded
    /\ resp.req.video_file # None
    /\ resp.req.video_file.size = 5242880
    /\ Len(resp.calls) = 3
    /\ resp.calls[1].kind = "INIT"
    /\ resp.calls[2].kind = "INIT"
    /\ resp.calls[3].kind = "PUT"

(* Every remote call of the upload succeeded. *)
AllCallsSucceed ==
    /\ Uploaded
    /\ resp.calls # <<>>
    /\ InitAccepted(resp.calls[1].response)
    /\ Len(resp.calls) >= 2
    /\ resp.calls[2].kind = "PUT"
    /\ ~resp.calls[2].response.raised
    /\ PutAccepted(resp.calls[2].response.status)

(* C7: when every remote call succeeds, one upload request makes exactly one
   INIT call with video_size N, then exactly one PUT to the returned
   upload_url with Content-Length N, then exactly one status-fetch call with
   the returned publish_id, and answers with ok: true and that publish_id. *)
C7_EndToEnd ==
    AllCallsSucceed =>
        LET N == resp.req.video_file.size
            init == resp.calls[1].response
        IN  /\ Len(resp.calls) = 3
            /\ resp.calls[1].kind = "INIT"
            /\ resp.calls[1].data.source_info.video_size = N
            /\ resp.calls[2].kind = "PUT"
            /\ resp.calls[2].url = init.upload_url
            /\ ParseInt(resp.calls[2].headers.ContentLength) = N
            /\ resp.calls[3].kind = "STATUS"
            /\ resp.calls[3].publish_id = init.publish_id
            /\ "ok" \in DOMAIN resp.shown
            /\ resp.shown.ok = TRUE
            /\ resp.shown.publish_id = init.publish_id

(* What C7 says without the status fetch holds of the code: one INIT, then one
   PUT to the returned upload_url, and a 200 answer showing the publish_id. *)
EndToEndWithoutStatusFetch ==
    AllCallsSucceed =>
        LET N == resp.req.video_file.size
            init == resp.calls[1].response
        IN  /\ Len(resp.calls) = 2
            /\ resp.calls[1].data.source_info.video_size = N
            /\ resp.calls[2].url = init.upload_url
            /\ ParseInt(resp.calls[2].headers.ContentLength) = N
            /\ resp.status = 200
            /\ resp.shown.kind = "success"
            /\ resp.shown.publish_id = init.publish_id

(* The submitted form passes the validations other than the size guard. *)
FormAccepted(req) ==
    /\ req.video_file # None
    /\ Lower(req.video_file.filename) = "clip.mp4"
    /\ (req.direct_post => Strip(req.title) # "")

(* C10: POST /upload makes an outbound call only if the session holds an
   access token and the file has at most MAX_FILE_SIZE bytes; without a token
   it answers 401, with a token and a file of more than MAX_FILE_SIZE bytes it
   answers 400, both without any outbound call; a file of exactly
   MAX_FILE_SIZE bytes is let through to INIT. *)
C10_UploadGuards ==
    Uploaded =>
        /\ resp.calls # <<>>
           => /\ Truthy(SessionGet(session, "access_token"))
              /\ resp.req.video_file.size <= 287 * 1024 * 1024
        /\ ~Truthy(SessionGet(session, "access_token"))
           => (resp.status = 401 /\ resp.calls = <<>>)
        /\ (/\ Truthy(SessionGet(session, "access_token"))
            /\ resp.req.video_file # None
            /\ resp.req.video_file.size > 287 * 1024 * 1024)
           => (resp.status = 400 /\ resp.calls = <<>>)
        /\ (/\ Truthy(SessionGet(session, "access_token"))
            /\ FormAccepted(resp.req)
            /\ resp.req.video_file.size = 287 * 1024 * 1024)
           => (resp.calls # <<>> /\ resp.calls[1].kind = "INIT")

(* C10 witness: a file of exactly MAX_FILE_SIZE bytes reached INIT. *)
C10_Witness ==
    /\ Uploaded
    /\ resp.calls # <<>>
    /\ resp.req.video_file.size = 287 * 1024 * 1024
    /\ resp.calls[1].data.source_info.video_size = 287 * 1024 * 1024

(* After /logout the session holds no token and POST /upload answers 401. *)
UploadAfterLogoutRefused ==
    /\ Uploaded
    /\ session = EmptySession
    /\ consumed # None
    /\ resp.status = 401

----------------------------------------------------------------------------
(* Failures of the outbound calls *)

(* One of the handler's outbound calls raised (connection error, timeout). *)
SomeCallRaised(rp) == \E i \in 1..Len(rp.calls) : rp.calls[i].response.raised

(* C11: when an outbound call of /callback (the token POST) or of POST /upload
   (INIT, the PUT) raises, the handler returns an error response, no exception
   leaves the handler, and the session's access_token is as it was. *)
C11_CallFailuresHandled ==
    [][(/\ resp = None
        /\ resp' # None
        /\ resp'.route \in {"callback", "upload"}
        /\ SomeCallRaised(resp'))
       => (/\ resp'.tag # "unhandled_exception"
           /\ resp'.status \in 400..499
           /\ SessionGet(session', "access_token") = SessionGet(session, "access_token"))]_vars

(* In POST /upload every raised call is caught: the answer is the 400
   "Upload failed" response and the session is untouched. *)
UploadCallFailuresHandled ==
    [][(/\ resp = None
        /\ resp' # None
        /\ resp'.route = "upload"
        /\ SomeCallRaised(resp'))
       => (/\ resp'.status = 400
           /\ resp'.shown.tag = "exception"
           /\ session' = session)]_vars

----------------------------------------------------------------------------
(* The order of INIT, PUT and the success result *)

(* The INIT answer is HTTP 200 with error code "ok" and a data object holding
   a non-empty publish_id and a non-empty upload_url. *)
InitCommits(r) ==
    /\ ~r.raised
    /\ r.status = 200
    /\ r.json = "dict"
    /\ r.error = "dict" /\ r.code = "ok"
    /\ r.data = "dict"
    /\ r.publish_id # None /\ r.publish_id # EmptyStr
    /\ r.upload_url # None /\ r.upload_url # EmptyStr

(* C12: a PUT is sent only right after an INIT of the same request that was
   answered 200, code "ok", with a non-empty publish_id and upload_url, and it
   goes to that upload_url; no INIT follows the first such answer; and a
   success is returned only after that PUT was answered 200, 201, 202 or 204,
   with that publish_id. *)
C12_PutOnlyAfterAcceptedInit ==
    Uploaded =>
        /\ \A i \in PutAt(resp.calls) :
              /\ i > 1
              /\ resp.calls[i - 1].kind = "INIT"
              /\ InitCommits(resp.calls[i - 1].response)
              /\ resp.calls[i].url = resp.calls[i - 1].response.upload_url
        /\ \A i \in InitAt(resp.calls) :
              InitCommits(resp.calls[i].response)
              => \A j \in InitAt(resp.calls) : j <= i
        /\ resp.status = 200
           => LET n == Len(resp.calls)
              IN  /\ n >= 2
                  /\ resp.calls[n].kind = "PUT"
                  /\ ~resp.calls[n].response.raised
                  /\ resp.calls[n].response.status \in {200, 201, 202, 204}
                  /\ resp.calls[n - 1].kind = "INIT"
                  /\ resp.shown.kind = "success"
                  /\ resp.shown.publish_id = resp.calls[n - 1].response.publish_id

(* C12 witness: the direct-post INIT was rejected, the inbox INIT was accepted,
   the PUT was answered 201 and the upload succeeded. *)
C12_Witness ==
    /\ Uploaded
    /\ resp.status = 200
    /\ Len(resp.calls) = 3
    /\ resp.calls[1].kind = "INIT"
    /\ InitRejected(resp.calls[1].response)
    /\ resp.calls[2].kind = "INIT"
    /\ InitCommits(resp.calls[2].response)
    /\ resp.calls[3].kind = "PUT"
    /\ resp.calls[3].response.status = 201

=============================================================================
